---- MODULE Spec2Model ----
(***************************************************************************)
(* RouterVault (threejmik): the per-device change-detection and backup     *)
(* engine of app/services/backup.py, its device client                     *)
(* (app/services/mikrotik.py), the alert store (app/services/alerts.py)    *)
(* and the HTTP handlers of app/main.py that touch the same rows and       *)
(* files.                                                                  *)
(*                                                                         *)
(* Time is an integer count of clock units.  The calendar is scaled: an    *)
(* hour is HourLen units, a day DayLen units, Asia/Manila is TzOffset      *)
(* units ahead of UTC, and the "one second" of the cursor arithmetic is    *)
(* one unit.                                                               *)
(***************************************************************************)
EXTENDS Integers, Sequences, FiniteSets, TLC

(***************************************************************************)
(* Bounds of the model.                                                    *)
(***************************************************************************)
MaxTime == 2
HourLen == 1
DayLen == 2
TzOffset == 1
MaxCalls == 2
MaxLog == 1
MaxCycles == 2
max_backup_logs == 1
noisy_threshold == 2

(***************************************************************************)
(* Program constants.                                                      *)
(***************************************************************************)
DefaultIntervalHours == 6
DefaultForceDays == 7
DefaultRetentionDays == 30

(***************************************************************************)
(* Values.  A TEXT column holding a timestamp is NULL, the empty string,   *)
(* an ISO timestamp (what utcnow() and isoformat() write) or text that     *)
(* datetime.fromisoformat rejects.                                         *)
(***************************************************************************)
None == [kind |-> "none", t |-> 0]
EmptyText == [kind |-> "empty", t |-> 0]
Junk == [kind |-> "junk", t |-> 0]
Iso(t) == [kind |-> "iso", t |-> t]

\* Python truthiness of an optional string.
Truthy(x) == x.kind \in {"iso", "junk"}

\* datetime.fromisoformat(x) / strptime(x, "%H:%M") returns instead of raising.
Parses(x) == x.kind = "iso"

\* `a or b` for strings.
OrElse(a, b) == IF Truthy(a) THEN a ELSE b

\* `n or d` for an INTEGER column (NULL and 0 are both falsy).
IntOr(n, d) == IF n = 0 THEN d ELSE n

Max(a, b) == IF a >= b THEN a ELSE b

Hours(h) == h * HourLen

\* timedelta(seconds=s): a duration shorter than an hour is one clock unit.
Seconds(s) == IF s >= 3600 THEN (s \div 3600) * HourLen ELSE 1
Days(d) == d * DayLen

\* A hash column: NULL, "" or a hex digest.
NoHash == "NULL"
Hashes == {"hA", "hB", "hEmpty"}
FalsyHash(h) == h \in {NoHash, ""}

\* A log list handed to detect_change: entries are [logged_at, topics, message].
ChangeEntry(t) == [logged_at |-> Iso(t), topics |-> "system,info", message |-> "config changed by api"]
ScriptEntry(t) == [logged_at |-> Iso(t), topics |-> "script,info", message |-> "run"]

(***************************************************************************)
(* Due Calculator and Change Detector (app/services/backup.py).            *)
(***************************************************************************)

\* The local wall clock of Asia/Manila at UTC instant t.
NowPh(t) == [date |-> (t + TzOffset) \div DayLen, tod |-> (t + TzOffset) % DayLen]

is_baseline_due(router, now_ph) ==
    IF ~Truthy(router.daily_baseline_time) THEN FALSE
    ELSE IF ~Parses(router.daily_baseline_time) THEN FALSE
    ELSE LET baseline_time == router.daily_baseline_time.t
             last_baseline == router.last_baseline_at
             has_date == Truthy(last_baseline) /\ Parses(last_baseline)
             last_baseline_date == IF has_date THEN NowPh(last_baseline.t).date ELSE 0
         IN  IF has_date /\ last_baseline_date = now_ph.date THEN FALSE
             ELSE now_ph.tod >= baseline_time

is_interval_due_first_check_only(router, now) ==
    LET last_check == router.last_check_at IN
    IF ~Truthy(last_check) THEN TRUE
    ELSE IF ~Parses(last_check) THEN TRUE
    ELSE FALSE

is_interval_due(router, now) ==
    LET last_check == router.last_check_at IN
    IF ~Truthy(last_check) THEN TRUE
    ELSE IF ~Parses(last_check) THEN TRUE
    ELSE LET interval == Hours(IntOr(router.backup_check_interval_hours, DefaultIntervalHours))
         IN  now - last_check.t >= interval

should_force_backup_no_bootstrap(router, now) ==
    LET last_success == router.last_success_at IN
    IF ~Parses(last_success) THEN FALSE
    ELSE now - last_success.t >= Days(Max(1, IntOr(router.force_backup_every_days, DefaultForceDays)))

should_force_backup_no_floor(router, now) ==
    LET last_success == router.last_success_at IN
    IF ~Truthy(last_success) THEN TRUE
    ELSE IF ~Parses(last_success) THEN TRUE
    ELSE now - last_success.t >= Days(IntOr(router.force_backup_every_days, DefaultForceDays))

should_force_backup_default_cadence(router, now) ==
    LET last_success == router.last_success_at IN
    IF ~Truthy(last_success) THEN TRUE
    ELSE IF ~Parses(last_success) THEN TRUE
    ELSE now - last_success.t >= Days(DefaultForceDays)

should_force_backup(router, now) ==
    LET last_success == router.last_success_at IN
    IF ~Truthy(last_success) THEN TRUE
    ELSE IF ~Parses(last_success) THEN TRUE
    ELSE LET router_days == IntOr(router.force_backup_every_days, DefaultForceDays)
             days == Max(1, router_days)
         IN  now - last_success.t >= Days(days)

detect_change_none_only(logs, new_hash, old_hash) ==
    IF old_hash = NoHash THEN <<TRUE, "Initial snapshot">>
    ELSE IF new_hash # old_hash THEN <<TRUE, "Hash changed">>
    ELSE <<FALSE, "No changes detected">>

detect_change_always_changed(logs, new_hash, old_hash) ==
    IF FalsyHash(old_hash) THEN <<TRUE, "Initial snapshot">>
    ELSE <<TRUE, "Hash changed">>

detect_change_by_logs(logs, new_hash, old_hash) ==
    IF FalsyHash(old_hash) THEN <<TRUE, "Initial snapshot">>
    ELSE IF new_hash # old_hash THEN <<TRUE, "Hash changed">>
    ELSE IF \E i \in DOMAIN logs : logs[i].message = "config changed by api"
         THEN <<TRUE, "Config change logged">>
    ELSE <<FALSE, "No changes detected">>

detect_change(logs, new_hash, old_hash) ==
    IF FalsyHash(old_hash) THEN <<TRUE, "Initial snapshot">>
    ELSE IF new_hash # old_hash THEN <<TRUE, "Hash changed">>
    ELSE <<FALSE, "No changes detected">>

Decision_manual_force_only(router, logs, new_hash, baseline_due, force, now) ==
    LET dc == detect_change(logs, new_hash, router.last_hash)
        changed == dc[1]
        forced == force
    IN  [changed |-> changed, summary |-> dc[2], forced |-> forced,
         needs_backup |-> changed \/ forced]

Decision_force_flag_ignored(router, logs, new_hash, baseline_due, force, now) ==
    LET dc == detect_change(logs, new_hash, router.last_hash)
        changed == dc[1]
        forced == baseline_due /\ should_force_backup(router, now)
    IN  [changed |-> changed, summary |-> dc[2], forced |-> forced,
         needs_backup |-> changed \/ forced]

\* run_router_check, lines 144-146: the decision of one cycle.
Decision(router, logs, new_hash, baseline_due, force, now) ==
    LET dc == detect_change(logs, new_hash, router.last_hash)
        changed == dc[1]
        forced == force \/ (baseline_due /\ should_force_backup(router, now))
    IN  [changed |-> changed, summary |-> dc[2], forced |-> forced,
         needs_backup |-> changed \/ forced]

(***************************************************************************)
(* State.                                                                  *)
(***************************************************************************)
VARIABLES
    now,                 \* the server clock, datetime.utcnow(); the devices' clocks agree with it
    routers,             \* table routers: id -> row
    backups,             \* table backups: sequence of rows, id = position
    router_logs,         \* table router_logs: set of rows
    alerts,              \* table alerts: sequence of rows, id = position
    last_scheduler_run,  \* settings.last_scheduler_run
    files,               \* the artifact files under settings.storage_path
    dev,                 \* the devices: id -> [cfg, api_empty, log]
    tick,                \* run_scheduled_checks: its position and locals
    cyc,                 \* run_router_check: thread -> position and locals
    started,             \* the number of Executor runs started so far
    baseline_days,       \* history: id -> the local dates at which a tick found the baseline due
    fn                   \* the inputs and results of the pure Due Calculator / Change Detector calls

vars == <<now, routers, backups, router_logs, alerts, last_scheduler_run, files, dev, tick, cyc, started, baseline_days, fn>>

RouterIds == {1, 2}
Threads == {"tick", "man"}

\* safe_name: every character that is not alphanumeric, "-" or "_" becomes "_".
safe_name(value) == IF value = "a b" THEN "a_b" ELSE value

NoError == "NULL"
HasText(s) == s \notin {"NULL", ""}

NoLink == [slug |-> "", sub |-> "", stamp |-> 0]
NoLinks == [backup |-> NoLink, rsc |-> NoLink]

NewRouter(id, name, cfg) ==
    [id |-> id, name |-> name, enabled |-> TRUE,
     backup_check_interval_hours |-> cfg.interval,
     daily_baseline_time |-> cfg.baseline,
     force_backup_every_days |-> cfg.force,
     retention_days |-> cfg.retention,
     last_log_check_at |-> None, last_backup_log_at |-> None,
     last_success_at |-> None, last_backup_at |-> None,
     last_error |-> NoError, last_hash |-> NoHash,
     last_config_change_at |-> None, last_backup_links |-> NoLinks,
     last_check_at |-> None, last_baseline_at |-> None]

NoRow == NewRouter(0, "c", [interval |-> 0, baseline |-> None, force |-> 0, retention |-> 0])

(***************************************************************************)
(* Device client (app/services/mikrotik.py).                               *)
(***************************************************************************)
\* any(phrase in message_l for phrase in noise_phrases)
IsNoise(message) == message = "user admin logged in"

\* config_change_re.search(message)
MatchesChange(message) == message = "config changed by api"

\* _parse_log_datetime: the entry's date/time text as a datetime, or None.
parse_log_datetime(entry) == IF Parses(entry.time) THEN entry.time ELSE None

fetch_logs_keep(entry, since) ==
    LET logged_dt == parse_log_datetime(entry)
        skipped == Truthy(since) /\ Parses(since) /\ Parses(logged_dt) /\ logged_dt.t < since.t
        keep == (entry.topics = "script,info") \/ MatchesChange(entry.message)
    IN  ~skipped /\ ~IsNoise(entry.message) /\ keep

RECURSIVE fetch_logs_from(_, _, _)
fetch_logs_from(logs, since, i) ==
    IF i > Len(logs) THEN <<>>
    ELSE LET entry == logs[i]
             rest == fetch_logs_from(logs, since, i + 1)
         IN  IF fetch_logs_keep(entry, since)
             THEN <<[logged_at |-> entry.time, topics |-> entry.topics, message |-> entry.message]>> \o rest
             ELSE rest

\* MikroTikClient.fetch_logs(since) on the device's log.
fetch_logs(device, since) == fetch_logs_from(device.log, since, 1)

\* get_router_clock_iso(): the device clock, or utcnow() when it cannot be read.
get_router_clock_iso == Iso(now)

ExportText(cfg) == IF cfg = "A" THEN "/ip address add A" ELSE "# note\n/ip address add B"

\* normalize_export: blank and comment-only lines dropped, the rest stripped.
normalize_export(text) ==
    IF text = "# note\n/ip address add B" THEN "/ip address add B" ELSE text

\* sha256_text
sha256_text(text) ==
    IF text = "" THEN "hEmpty" ELSE IF text = "/ip address add A" THEN "hA" ELSE "hB"

\* export_config(): the rendered rows of /export.
export_config(device) == IF device.api_empty THEN "" ELSE ExportText(device.cfg)

\* create_rsc_file(name): the bytes of the exported .rsc file.
create_rsc_file(device) == ExportText(device.cfg)

(***************************************************************************)
(* Alerts (app/services/alerts.py).                                        *)
(***************************************************************************)
DedupeRecovered == 3600
DedupeCreated == 30
DedupeFailed == 900
DedupeManualFailed == 60

create_alert_without_dedupe(tbl, t, router_id, kind, message, dedupe_seconds) ==
    Append(tbl, [created_at |-> t, router_id |-> router_id, kind |-> kind, message |-> message])

\* create_alert: the table after the call at time t.
create_alert(tbl, t, router_id, kind, message, dedupe_seconds) ==
    LET cutoff == t - Seconds(dedupe_seconds)
        exists == \E i \in DOMAIN tbl :
                      /\ tbl[i].router_id = router_id
                      /\ tbl[i].kind = kind
                      /\ tbl[i].message = message
                      /\ tbl[i].created_at >= cutoff
    IN  IF dedupe_seconds > 0 /\ exists THEN tbl
        ELSE Append(tbl, [created_at |-> t, router_id |-> router_id, kind |-> kind, message |-> message])

\* The alerts table or the settings row cannot be read or written.
AlertsFail == fn.op = "alerts_fail"

\* create_alert as a call: the table it leaves and whether it raised.  It
\* raises before the INSERT (lines 89-97) or after it, in should_send_telegram
\* (line 99); a failed send_message is swallowed inside (lines 104-109).
create_alert_outcomes(tbl, t, router_id, kind, message, dedupe_seconds) ==
    LET inserted == create_alert(tbl, t, router_id, kind, message, dedupe_seconds)
    IN  {[tbl |-> inserted, raised |-> FALSE]}
        \cup (IF AlertsFail
              THEN {[tbl |-> tbl, raised |-> TRUE], [tbl |-> inserted, raised |-> TRUE]}
              ELSE {})

TryAlertReraises(r) == r

\* try: create_alert(...) except Exception: pass
TryAlert(r) == [r EXCEPT !.raised = FALSE]

(***************************************************************************)
(* Backup Executor: run_router_check (app/services/backup.py).  A run is   *)
(* cut where it touches what other threads touch: the device, the files,   *)
(* the database.  An exception ends the run in the caller's except clause, *)
(* which is part of the same step.                                         *)
(***************************************************************************)
IdleCyc ==
    [pc |-> "idle", router |-> NoRow, baseline_due |-> FALSE, force |-> FALSE,
     trigger |-> "auto", now |-> 0, prior_error |-> "", detection_logs |-> <<>>,
     log_cursor |-> None, new_hash |-> NoHash, changed |-> FALSE, summary |-> "",
     forced |-> FALSE, needs_backup |-> FALSE, backup_logs |-> <<>>,
     backup_log_cursor |-> None, protected_names |-> {}, links |-> NoLinks]

IdleTick == [pc |-> "idle", routers |-> <<>>, idx |-> 0, now_utc |-> 0, now_ph |-> NowPh(0), outcome |-> <<>>]

\* Lines 127-142: the hash of the normalized export, with the .rsc fallback.
NewHash(d, fallback_ok) ==
    LET normalized == normalize_export(export_config(d))
    IN  IF normalized # "" THEN sha256_text(normalized)
        ELSE IF fallback_ok THEN sha256_text(normalize_export(create_rsc_file(d)))
        ELSE sha256_text("")

\* Lines 118-151 of run_router_check(router, baseline_due, force, trigger): the
\* detection-window logs, the backdated device clock, the export hash, the decision.
Probe(router, baseline_due, force, trigger, fallback_ok) ==
    LET d == dev[router.id]
        detection_logs == fetch_logs(d, router.last_log_check_at)
        log_cursor == Iso(get_router_clock_iso.t - Seconds(1))
        new_hash == NewHash(d, fallback_ok)
        dec == Decision(router, detection_logs, new_hash, baseline_due, force, now)
    IN  [IdleCyc EXCEPT
            !.pc = IF dec.needs_backup THEN "artifacts" ELSE "commit",
            !.router = router, !.baseline_due = baseline_due, !.force = force,
            !.trigger = trigger, !.now = now,
            !.prior_error = IF HasText(router.last_error) THEN router.last_error ELSE "",
            !.detection_logs = detection_logs, !.log_cursor = log_cursor,
            !.new_hash = new_hash, !.changed = dec.changed, !.summary = dec.summary,
            !.forced = dec.forced, !.needs_backup = dec.needs_backup,
            !.backup_log_cursor = OrElse(router.last_backup_log_at,
                                         OrElse(router.last_backup_at, router.last_success_at))]

\* run_scheduled_checks, lines 350-372: the except clause ends and the loop goes on.
AfterExcept_same_device(t) == [t EXCEPT !.pc = "loop", !.outcome = Append(@, "failed")]

AfterExcept(t) == [t EXCEPT !.pc = "loop", !.idx = @ + 1, !.outcome = Append(@, "failed")]

FailedRowClearsHash(row, message, t) ==
    [row EXCEPT !.last_error = message, !.last_check_at = Iso(t), !.last_hash = NoHash]

\* run_scheduled_checks, lines 351-359: UPDATE routers SET last_error, last_check_at.
FailedRow(row, message, t) == [row EXCEPT !.last_error = message, !.last_check_at = Iso(t)]

\* The Executor raises in thread th: the except clause of run_scheduled_checks
\* (lines 350-372) or of trigger_backup (app/main.py, lines 1300-1316).
Except(th, id, message) ==
    /\ cyc' = [cyc EXCEPT ![th] = IdleCyc]
    /\ IF th = "tick"
       THEN \/ /\ routers' = IF id \in DOMAIN routers
                             THEN [routers EXCEPT ![id] = FailedRow(@, message, now)]
                             ELSE routers
               /\ \E r \in {TryAlert(o) : o \in create_alert_outcomes(alerts, now, id, "backup_failed", <<message>>, DedupeFailed)} :
                     /\ alerts' = r.tbl
                     /\ tick' = IF r.raised THEN IdleTick ELSE AfterExcept(tick)
            \* The UPDATE of lines 351-359 is outside any try: when it raises
            \* (sqlite3.OperationalError), the exception leaves run_scheduled_checks.
            \/ /\ tick' = IdleTick
               /\ UNCHANGED <<routers, alerts>>
       ELSE /\ \E r \in {TryAlert(o) : o \in create_alert_outcomes(alerts, now, id, "backup_failed", <<message>>, DedupeManualFailed)} :
                  alerts' = r.tbl
            /\ UNCHANGED <<routers, tick>>

LastEntries_from_the_start(logs, n) ==
    IF Len(logs) > n THEN SubSeq(logs, 1, n) ELSE logs

\* backup_logs[-max_backup_logs:]
LastEntries(logs, n) ==
    IF Len(logs) > n THEN SubSeq(logs, Len(logs) - n + 1, Len(logs)) ELSE logs

\* Lines 155-164: a noisy backup window gives way to the detection window,
\* and the list kept is cut to its last max_backup_logs entries.
KeptLogs(fetched, detection_logs) ==
    LET noisy == Len(fetched) > noisy_threshold
    IN  LastEntries(IF noisy THEN detection_logs ELSE fetched, max_backup_logs)

NextBackupCursor_at_newest(backup_logs, log_cursor) ==
    LET times == {backup_logs[i].logged_at.t : i \in {j \in DOMAIN backup_logs : Parses(backup_logs[j].logged_at)}}
    IN  IF times # {}
        THEN Iso(CHOOSE t \in times : \A u \in times : u <= t)
        ELSE log_cursor

\* Lines 166-178: one second past the newest parseable logged_at, else the detection cursor.
NextBackupCursor(backup_logs, log_cursor) ==
    LET times == {backup_logs[i].logged_at.t : i \in {j \in DOMAIN backup_logs : Parses(backup_logs[j].logged_at)}}
    IN  IF times # {}
        THEN Iso((CHOOSE t \in times : \A u \in times : u <= t) + Seconds(1))
        ELSE log_cursor

\* Path.write_bytes: the file at (slug, sub, stamp) is created or replaced.
WriteFile(fs, slug, sub, stamp, t) ==
    {f \in fs : ~(f.slug = slug /\ f.sub = sub /\ f.stamp = stamp)}
        \cup {[slug |-> slug, sub |-> sub, stamp |-> stamp, mtime |-> t]}

\* Lines 152-192: the backup-window logs, the new backup cursor, and the two
\* artifacts fetched from the device and written to the device's folders.
CycArtifacts(th) ==
    /\ cyc[th].pc = "artifacts"
    /\ LET c == cyc[th]
           d == dev[c.router.id]
           fetched == fetch_logs(d, c.backup_log_cursor)
           backup_logs == KeptLogs(fetched, c.detection_logs)
           router_slug == safe_name(c.router.name)
           stamp == c.now
       IN  \/ /\ files' = WriteFile(WriteFile(files, router_slug, "backups", stamp, now),
                                    router_slug, "rsc", stamp, now)
              /\ cyc' = [cyc EXCEPT ![th] =
                           [c EXCEPT !.pc = "protected", !.backup_logs = backup_logs,
                                     !.backup_log_cursor = NextBackupCursor(backup_logs, c.log_cursor)]]
              /\ UNCHANGED <<routers, alerts, tick>>
           \/ /\ Except(th, c.router.id, "ftp failed")
              /\ UNCHANGED files
    /\ UNCHANGED <<now, backups, router_logs, last_scheduler_run, dev, started, baseline_days, fn>>

\* Path(link).name
FileName(link) == <<link.slug, link.stamp, link.sub>>

\* Lines 198-211: the names of the files of this router's important backups.
ProtectedNames(router_id) ==
    LET rows == {i \in DOMAIN backups : backups[i].router_id = router_id /\ backups[i].important}
    IN  {FileName(backups[i].backup_link) : i \in rows} \cup {FileName(backups[i].rsc_link) : i \in rows}

\* Lines 194-213: the protected names, or the empty set when the lookup raises.
CycProtected(th) ==
    /\ cyc[th].pc = "protected"
    /\ \E names \in {ProtectedNames(cyc[th].router.id), {}} :
          cyc' = [cyc EXCEPT ![th] = [@ EXCEPT !.pc = "sweep", !.protected_names = names]]
    /\ UNCHANGED <<now, routers, backups, router_logs, alerts, last_scheduler_run, files, dev, tick, started, baseline_days, fn>>

delete_old_local_files_any_age(fs, slug, sub, retention_days, protected, t) ==
    {f \in fs : ~(/\ f.slug = slug
                      /\ f.sub = sub
                      /\ <<f.slug, f.stamp, f.sub>> \notin protected)}

\* delete_old_local_files(folder, retention_days, protected) at time t.
delete_old_local_files(fs, slug, sub, retention_days, protected, t) ==
    LET cutoff == t - Days(retention_days)
    IN  {f \in fs : ~(/\ f.slug = slug
                      /\ f.sub = sub
                      /\ <<f.slug, f.stamp, f.sub>> \notin protected
                      /\ f.mtime <= cutoff)}

\* Lines 215-220: the retention sweep of both folders, and the links.
CycSweep(th) ==
    /\ cyc[th].pc = "sweep"
    /\ LET c == cyc[th]
           router_slug == safe_name(c.router.name)
           retention_days == IntOr(c.router.retention_days, DefaultRetentionDays)
           swept == delete_old_local_files(files, router_slug, "backups", retention_days, c.protected_names, now)
       IN  /\ files' = delete_old_local_files(swept, router_slug, "rsc", retention_days, c.protected_names, now)
           /\ cyc' = [cyc EXCEPT ![th] =
                        [c EXCEPT !.pc = "commit",
                                  !.links = [backup |-> [slug |-> router_slug, sub |-> "backups", stamp |-> c.now],
                                             rsc |-> [slug |-> router_slug, sub |-> "rsc", stamp |-> c.now]]]]
    /\ UNCHANGED <<now, routers, backups, router_logs, alerts, last_scheduler_run, dev, tick, started, baseline_days, fn>>

CommitRowKeepsError(row, c, t) ==
    [row EXCEPT
        !.last_log_check_at = c.log_cursor,
        !.last_backup_log_at = IF c.needs_backup THEN c.backup_log_cursor ELSE c.router.last_backup_log_at,
        !.last_hash = c.new_hash,
        !.last_backup_at = IF c.needs_backup THEN Iso(t) ELSE c.router.last_backup_at,
        !.last_success_at = IF c.needs_backup THEN Iso(t) ELSE c.router.last_success_at,
        !.last_config_change_at = IF c.changed THEN Iso(t) ELSE c.router.last_config_change_at,
        !.last_backup_links = IF c.needs_backup THEN c.links ELSE c.router.last_backup_links,
        !.last_check_at = Iso(t),
        !.last_baseline_at = IF c.baseline_due THEN Iso(t) ELSE c.router.last_baseline_at]

\* Lines 223-253: the UPDATE of the router's row at time t.
CommitRow(row, c, t) ==
    [row EXCEPT
        !.last_log_check_at = c.log_cursor,
        !.last_backup_log_at = IF c.needs_backup THEN c.backup_log_cursor ELSE c.router.last_backup_log_at,
        !.last_hash = c.new_hash,
        !.last_backup_at = IF c.needs_backup THEN Iso(t) ELSE c.router.last_backup_at,
        !.last_success_at = IF c.needs_backup THEN Iso(t) ELSE c.router.last_success_at,
        !.last_error = NoError,
        !.last_config_change_at = IF c.changed THEN Iso(t) ELSE c.router.last_config_change_at,
        !.last_backup_links = IF c.needs_backup THEN c.links ELSE c.router.last_backup_links,
        !.last_check_at = Iso(t),
        !.last_baseline_at = IF c.baseline_due THEN Iso(t) ELSE c.router.last_baseline_at]

BackupRow_forced_when_needed(c, t) ==
    [router_id |-> c.router.id, created_at |-> t, rsc_hash |-> c.new_hash,
     rsc_link |-> c.links.rsc, backup_link |-> c.links.backup,
     change_summary |-> c.summary, trigger |-> c.trigger,
     was_forced |-> c.needs_backup, was_changed |-> c.changed, important |-> FALSE]

\* Lines 254-275: the INSERT INTO backups.
BackupRow(c, t) ==
    [router_id |-> c.router.id, created_at |-> t, rsc_hash |-> c.new_hash,
     rsc_link |-> c.links.rsc, backup_link |-> c.links.backup,
     change_summary |-> c.summary, trigger |-> c.trigger,
     was_forced |-> c.forced, was_changed |-> c.changed, important |-> FALSE]

LogRows_without_backup_id(c, backup_id) ==
    LET logs_to_store == IF c.needs_backup THEN c.backup_logs ELSE c.detection_logs
    IN  {[router_id |-> c.router.id, logged_at |-> logs_to_store[i].logged_at,
          message |-> logs_to_store[i].message, backup_id |-> 0] : i \in DOMAIN logs_to_store}

\* Lines 276-292: the INSERT INTO router_logs, one row per kept entry.
LogRows(c, backup_id) ==
    LET logs_to_store == IF c.needs_backup THEN c.backup_logs ELSE c.detection_logs
    IN  {[router_id |-> c.router.id, logged_at |-> logs_to_store[i].logged_at,
          message |-> logs_to_store[i].message, backup_id |-> backup_id] : i \in DOMAIN logs_to_store}

\* Lines 222-292: one transaction; an exception inside it rolls everything back.
CycCommit(th) ==
    /\ cyc[th].pc = "commit"
    /\ LET c == cyc[th]
           id == c.router.id
           backup_id == IF c.needs_backup THEN Len(backups) + 1 ELSE 0
       IN  \/ /\ routers' = IF id \in DOMAIN routers
                            THEN [routers EXCEPT ![id] = CommitRow(@, c, now)]
                            ELSE routers
              /\ backups' = IF c.needs_backup THEN Append(backups, BackupRow(c, now)) ELSE backups
              /\ router_logs' = router_logs \cup LogRows(c, backup_id)
              /\ cyc' = [cyc EXCEPT ![th] = [c EXCEPT !.pc = "alerts"]]
              /\ UNCHANGED <<alerts, tick>>
           \/ /\ Except(th, id, "database is locked")
              /\ UNCHANGED <<backups, router_logs>>
    /\ UNCHANGED <<now, last_scheduler_run, files, dev, started, baseline_days, fn>>

\* Lines 294-325: the alerts of a successful run, each call in its own try.
SuccessAlertOutcomes(c, t) ==
    LET kind == IF c.trigger = "manual" THEN "manual_backup" ELSE "backup_created"
        recovered == IF c.prior_error # ""
                     THEN {TryAlert(o) : o \in create_alert_outcomes(alerts, t, c.router.id, "router_recovered", <<"recovered">>, DedupeRecovered)}
                     ELSE {[tbl |-> alerts, raised |-> FALSE]}
        created(r) == IF c.needs_backup
                      THEN {TryAlert(o) : o \in create_alert_outcomes(r.tbl, t, c.router.id, kind, <<c.trigger, c.changed, c.forced>>, DedupeCreated)}
                      ELSE {r}
    IN  UNION {IF r.raised THEN {r} ELSE created(r) : r \in recovered}

\* Lines 294-325, and the return to the caller: the loop of run_scheduled_checks
\* goes on (line 343), trigger_backup answers (app/main.py, line 1299).
CycAlerts(th) ==
    /\ cyc[th].pc = "alerts"
    /\ \E r \in SuccessAlertOutcomes(cyc[th], now) :
          IF r.raised
          THEN Except(th, cyc[th].router.id, "alert failed")
          ELSE /\ alerts' = r.tbl
               /\ cyc' = [cyc EXCEPT ![th] = IdleCyc]
               /\ tick' = IF th = "tick"
                          THEN [tick EXCEPT !.pc = "loop", !.idx = @ + 1, !.outcome = Append(@, "ok")]
                          ELSE tick
               /\ UNCHANGED routers
    /\ UNCHANGED <<now, backups, router_logs, last_scheduler_run, files, dev, started, baseline_days, fn>>

Cycle(th) ==
    \/ CycArtifacts(th)
    \/ CycProtected(th)
    \/ CycSweep(th)
    \/ CycCommit(th)
    \/ CycAlerts(th)

(***************************************************************************)
(* Fleet Scheduler Loop: run_scheduled_checks (app/services/backup.py).    *)
(***************************************************************************)
RECURSIVE RowsOf(_)
\* SELECT * FROM routers WHERE enabled = 1, in id order.
RowsOf(ids) ==
    IF ids = {} THEN <<>>
    ELSE LET id == CHOOSE i \in ids : \A j \in ids : i <= j
         IN  <<routers[id]>> \o RowsOf(ids \ {id})

TickStart_without_heartbeat ==
    /\ tick.pc = "idle"
    /\ tick' = [pc |-> "loop", routers |-> RowsOf({id \in DOMAIN routers : routers[id].enabled}),
                idx |-> 1, now_utc |-> now, now_ph |-> NowPh(now), outcome |-> <<>>]
    /\ UNCHANGED <<now, routers, backups, router_logs, alerts, last_scheduler_run, files, dev, cyc, started, baseline_days, fn>>

\* Lines 329-342: the clocks, the enabled rows, the heartbeat.
TickStart ==
    /\ tick.pc = "idle"
    /\ tick' = [pc |-> "loop", routers |-> RowsOf({id \in DOMAIN routers : routers[id].enabled}),
                idx |-> 1, now_utc |-> now, now_ph |-> NowPh(now), outcome |-> <<>>]
    /\ last_scheduler_run' = Iso(now)
    /\ UNCHANGED <<now, routers, backups, router_logs, alerts, files, dev, cyc, started, baseline_days, fn>>

IsDue_interval_only(router, now_utc, now_ph) == is_interval_due(router, now_utc)

\* Lines 345-347: is the device examined in this tick.
IsDue(router, now_utc, now_ph) == is_baseline_due(router, now_ph) \/ is_interval_due(router, now_utc)

\* Lines 343-349: the next device of the loop is skipped, or the Executor is
\* called for it and runs up to its decision.
TickNext ==
    /\ tick.pc = "loop"
    /\ tick.idx <= Len(tick.routers)
    /\ LET router_dict == tick.routers[tick.idx]
           baseline_due == is_baseline_due(router_dict, tick.now_ph)
       IN  /\ IF IsDue(router_dict, tick.now_utc, tick.now_ph)
              THEN /\ started < MaxCycles
                   /\ started' = started + 1
                   /\ \/ /\ \E fallback_ok \in BOOLEAN :
                               cyc' = [cyc EXCEPT !["tick"] = Probe(router_dict, baseline_due, FALSE, "auto", fallback_ok)]
                         /\ tick' = [tick EXCEPT !.pc = "check"]
                         /\ UNCHANGED <<routers, alerts>>
                      \/ \E message \in {"api unreachable", "Failed to export config"} :
                            Except("tick", router_dict.id, message)
              ELSE /\ tick' = [tick EXCEPT !.idx = @ + 1, !.outcome = Append(@, "skipped")]
                   /\ UNCHANGED <<routers, alerts, cyc, started>>
           /\ baseline_days' = IF baseline_due
                               THEN [baseline_days EXCEPT ![router_dict.id] = Append(@, tick.now_ph.date)]
                               ELSE baseline_days
    /\ UNCHANGED <<now, backups, router_logs, last_scheduler_run, files, dev, fn>>

AlertsRetentionDays == 30

\* cleanup_old_alerts: DELETE FROM alerts WHERE created_at < cutoff.
cleanup_old_alerts(tbl, t) ==
    SelectSeq(tbl, LAMBDA a : ~(a.created_at < t - Days(AlertsRetentionDays)))

\* Lines 373-378: after the loop.
TickCleanup ==
    /\ tick.pc = "loop"
    /\ tick.idx > Len(tick.routers)
    /\ alerts' = cleanup_old_alerts(alerts, now)
    /\ tick' = IdleTick
    /\ UNCHANGED <<now, routers, backups, router_logs, last_scheduler_run, files, dev, cyc, started, baseline_days, fn>>

(***************************************************************************)
(* HTTP handlers (app/main.py).                                            *)
(***************************************************************************)
\* trigger_backup: the row is read and the Executor called with force = True;
\* it runs up to its decision.
trigger_backup(id) ==
    /\ cyc["man"].pc = "idle"
    /\ id \in DOMAIN routers
    /\ started < MaxCycles
    /\ started' = started + 1
    /\ \/ /\ \E fallback_ok \in BOOLEAN :
                cyc' = [cyc EXCEPT !["man"] = Probe(routers[id], FALSE, TRUE, "manual", fallback_ok)]
          /\ UNCHANGED <<routers, alerts, tick>>
       \/ \E message \in {"api unreachable", "Failed to export config"} :
             Except("man", id, message)
    /\ UNCHANGED <<now, backups, router_logs, last_scheduler_run, files, dev, baseline_days, fn>>

\* toggle_backup_important
toggle_backup_important(backup_id) ==
    /\ backup_id \in DOMAIN backups
    /\ backups' = [backups EXCEPT ![backup_id].important = ~@]
    /\ UNCHANGED <<now, routers, router_logs, alerts, last_scheduler_run, files, dev, tick, cyc, started, baseline_days, fn>>

(***************************************************************************)
(* Environment: the clock and the devices.                                 *)
(***************************************************************************)
AdvanceTime ==
    /\ now < MaxTime
    /\ now' = now + 1
    /\ UNCHANGED <<routers, backups, router_logs, alerts, last_scheduler_run, files, dev, tick, cyc, started, baseline_days, fn>>

\* The running configuration of a device is edited.
DeviceChange(id) ==
    /\ id \in DOMAIN dev
    /\ dev[id].cfg = "A"
    /\ dev' = [dev EXCEPT ![id].cfg = "B"]
    /\ UNCHANGED <<now, routers, backups, router_logs, alerts, last_scheduler_run, files, tick, cyc, started, baseline_days, fn>>

\* The device logs a configuration change, stamped with its clock.
DeviceLog(id) ==
    /\ id \in DOMAIN dev
    /\ Len(dev[id].log) < MaxLog
    /\ dev' = [dev EXCEPT ![id].log =
                 Append(@, [time |-> Iso(now), topics |-> "system,info", message |-> "config changed by api"])]
    /\ UNCHANGED <<now, routers, backups, router_logs, alerts, last_scheduler_run, files, tick, cyc, started, baseline_days, fn>>

(***************************************************************************)
(* Specifications of the engine: two devices.                              *)
(***************************************************************************)
FnIdle == [op |-> "none"]

IntervalConfig == [interval |-> 1, baseline |-> None, force |-> 1, retention |-> 1]
BaselineConfig == [interval |-> 0, baseline |-> Iso(1), force |-> 1, retention |-> 1]

NewDevice == [cfg |-> "A", api_empty |-> FALSE, log |-> <<>>]

InitStore ==
    /\ now = 0
    /\ backups = <<>>
    /\ router_logs = {}
    /\ alerts = <<>>
    /\ last_scheduler_run = None
    /\ files = {}
    /\ tick = IdleTick
    /\ cyc = [th \in Threads |-> IdleCyc]
    /\ started = 0
    /\ baseline_days = [id \in RouterIds |-> <<>>]

\* Two routers as create_router leaves them; the second one may have been
\* disabled by toggle_router.
InitEngine ==
    /\ InitStore
    /\ \E enabled \in BOOLEAN :
          routers = (1 :> NewRouter(1, "a b", BaselineConfig))
                    @@ (2 :> [NewRouter(2, "c", IntervalConfig) EXCEPT !.enabled = enabled])
    /\ dev = [id \in RouterIds |-> NewDevice]

Init ==
    /\ InitEngine
    /\ fn = FnIdle

Next ==
    \/ TickStart
    \/ TickNext
    \/ TickCleanup
    \/ Cycle("tick")
    \/ \E id \in RouterIds : DeviceChange(id)
    \/ AdvanceTime

\* The scheduler alone: run_scheduled_checks every few minutes.
Spec == Init /\ [][Next]_vars

NextManual ==
    \/ \E id \in RouterIds : trigger_backup(id)
    \/ Cycle("man")
    \/ \E backup_id \in 1..MaxCycles : toggle_backup_important(backup_id)
    \/ \E id \in RouterIds : DeviceLog(id)
    \/ AdvanceTime

\* The operator alone: manual backups, one at a time, and the important flag.
SpecManual == Init /\ [][NextManual]_vars

NextConcurrent ==
    \/ Next
    \/ \E id \in RouterIds : trigger_backup(id)
    \/ Cycle("man")

\* The scheduler thread and a request thread side by side.
SpecConcurrent == Init /\ [][NextConcurrent]_vars

InitAlertFaults ==
    /\ InitEngine
    /\ ~routers[2].enabled
    /\ fn = [op |-> "alerts_fail"]

\* The scheduler tick over one device while alerts cannot be stored or
\* delivered reliably.
SpecAlertFaults == InitAlertFaults /\ [][Next]_vars

\* The names create_router accepts for the second device: any text, also one
\* that safe_name maps to the folder of the first device.
DeviceNames == {"c", "a_b"}

InitNames ==
    /\ InitStore
    /\ \E name \in DeviceNames :
          routers = (1 :> NewRouter(1, "a b", BaselineConfig))
                    @@ (2 :> NewRouter(2, name, IntervalConfig))
    /\ dev = [id \in RouterIds |-> NewDevice]
    /\ fn = FnIdle

\* The scheduler tick over two devices of any names.
SpecNames == InitNames /\ [][Next]_vars

\* One of the two devices is enabled.
InitOneDevice ==
    /\ InitStore
    /\ \E id \in RouterIds :
          routers = (1 :> [NewRouter(1, "a b", BaselineConfig) EXCEPT !.enabled = (id = 1)])
                    @@ (2 :> [NewRouter(2, "c", IntervalConfig) EXCEPT !.enabled = (id = 2)])
    /\ dev = [id \in RouterIds |-> NewDevice]
    /\ fn = FnIdle

\* run_scheduled_checks, from its start to its return.
TickStep == TickStart \/ TickNext \/ TickCleanup \/ Cycle("tick")

NextFair ==
    \/ TickStep
    \/ AdvanceTime

\* The scheduler with its timer: APScheduler fires the tick job again and
\* again, the tick runs to its end, and the clock goes on.
SpecFair == InitOneDevice /\ [][NextFair]_vars /\ WF_vars(TickStep) /\ WF_vars(AdvanceTime)

\* One device, the other one disabled.
InitSerial ==
    /\ Init
    /\ ~routers[2].enabled

NextSerial ==
    \/ /\ cyc["man"].pc = "idle"
       /\ TickStart \/ TickNext \/ TickCleanup \/ Cycle("tick")
    \/ /\ tick.pc = "idle"
       /\ trigger_backup(1) \/ Cycle("man")
    \/ DeviceChange(1)
    \/ AdvanceTime

\* The scheduler and the operator one after the other: a manual backup is
\* requested between two ticks, and a tick starts when no manual backup runs.
SpecSerial == InitSerial /\ [][NextSerial]_vars

NextLogs ==
    \/ TickStep
    \/ \E id \in RouterIds : routers[id].enabled /\ DeviceLog(id)
    \/ AdvanceTime

\* The scheduler over one device that writes to its log.
SpecLogs == InitOneDevice /\ [][NextLogs]_vars

\* One device, with room for two Executor runs more than MaxCycles: a failure,
\* a recovery, and both once more.
InitFlapping ==
    /\ now = 0
    /\ backups = <<>>
    /\ router_logs = {}
    /\ alerts = <<>>
    /\ last_scheduler_run = None
    /\ files = {}
    /\ tick = IdleTick
    /\ cyc = [th \in Threads |-> IdleCyc]
    /\ started = -2
    /\ baseline_days = [id \in RouterIds |-> <<>>]
    /\ \E id \in RouterIds :
          routers = (1 :> [NewRouter(1, "a b", BaselineConfig) EXCEPT !.enabled = (id = 1)])
                    @@ (2 :> [NewRouter(2, "c", IntervalConfig) EXCEPT !.enabled = (id = 2)])
    /\ dev = [id \in RouterIds |-> NewDevice]
    /\ fn = FnIdle

\* The scheduler over one device that fails and recovers again and again.
SpecFlapping == InitFlapping /\ [][NextFair]_vars

\* The interval device alone, with room for one Executor run more than MaxCycles.
InitThreeRuns ==
    /\ now = 0
    /\ backups = <<>>
    /\ router_logs = {}
    /\ alerts = <<>>
    /\ last_scheduler_run = None
    /\ files = {}
    /\ tick = IdleTick
    /\ cyc = [th \in Threads |-> IdleCyc]
    /\ started = -1
    /\ baseline_days = [id \in RouterIds |-> <<>>]
    /\ routers = (1 :> [NewRouter(1, "a b", BaselineConfig) EXCEPT !.enabled = FALSE])
                 @@ (2 :> NewRouter(2, "c", IntervalConfig))
    /\ dev = [id \in RouterIds |-> NewDevice]
    /\ fn = FnIdle

NextOverlap ==
    \/ TickStep
    \/ trigger_backup(2)
    \/ Cycle("man")
    \/ AdvanceTime

\* The scheduler and manual requests for one device, free to overlap.
SpecOverlap == InitThreeRuns /\ [][NextOverlap]_vars

\* One device enabled, and /export over the API yields no text row on either.
InitEmptyExport ==
    /\ InitStore
    /\ \E id \in RouterIds :
          routers = (1 :> [NewRouter(1, "a b", BaselineConfig) EXCEPT !.enabled = (id = 1)])
                    @@ (2 :> [NewRouter(2, "c", IntervalConfig) EXCEPT !.enabled = (id = 2)])
    /\ dev = [id \in RouterIds |-> [NewDevice EXCEPT !.api_empty = TRUE]]
    /\ fn = FnIdle

\* The scheduler over a device whose API export renders empty.
SpecEmptyExport == InitEmptyExport /\ [][NextFair]_vars

(***************************************************************************)
(* The Change Detector called on its own: detect_change and the decision   *)
(* of lines 144-146 on chosen inputs, with two log lists side by side.     *)
(***************************************************************************)
EngineVars == <<now, routers, backups, router_logs, alerts, last_scheduler_run, files, dev, tick, cyc, started, baseline_days>>

LogLists == {<<>>, <<ChangeEntry(0)>>, <<ScriptEntry(0), ChangeEntry(1)>>}
OldHashes == {NoHash, ""} \cup Hashes

InitDetect ==
    /\ InitEngine
    /\ fn \in [op : {"detect"}, logs : LogLists, other_logs : LogLists,
               new_hash : Hashes, old_hash : OldHashes,
               baseline_due : BOOLEAN, force : BOOLEAN,
               results : {<<>>}, other_results : {<<>>}, decisions : {<<>>}]

\* detect_change(logs, new_hash, old_hash), called once more.
DetectCall ==
    /\ fn.op = "detect"
    /\ Len(fn.results) < MaxCalls
    /\ fn' = [fn EXCEPT !.results = Append(@, detect_change(fn.logs, fn.new_hash, fn.old_hash))]
    /\ UNCHANGED EngineVars

\* detect_change(other_logs, new_hash, old_hash), called once more.
DetectOtherCall ==
    /\ fn.op = "detect"
    /\ Len(fn.other_results) < MaxCalls
    /\ fn' = [fn EXCEPT !.other_results = Append(@, detect_change(fn.other_logs, fn.new_hash, fn.old_hash))]
    /\ UNCHANGED EngineVars

\* Lines 144-146 for a router whose last_hash is old_hash, with either log list.
DecideCall ==
    /\ fn.op = "detect"
    /\ Len(fn.decisions) < MaxCalls
    /\ LET router == [NoRow EXCEPT !.last_hash = fn.old_hash]
       IN  fn' = [fn EXCEPT !.decisions = Append(@,
                     <<Decision(router, fn.logs, fn.new_hash, fn.baseline_due, fn.force, now),
                       Decision(router, fn.other_logs, fn.new_hash, fn.baseline_due, fn.force, now)>>)]
    /\ UNCHANGED EngineVars

NextDetect == DetectCall \/ DetectOtherCall \/ DecideCall

SpecDetect == InitDetect /\ [][NextDetect]_vars

(***************************************************************************)
(* The Due Calculator called on its own.                                   *)
(***************************************************************************)
Timestamps == {None, EmptyText, Junk} \cup {Iso(t) : t \in 0..MaxTime}

InitDue ==
    /\ InitEngine
    /\ fn \in [op : {"due"}, last_success_at : Timestamps,
               force_backup_every_days : {-1, 0, 1, 2}, now : 0..MaxTime,
               force_due : {<<>>}]

\* should_force_backup(router, now), called once more.
ForceCall ==
    /\ fn.op = "due"
    /\ Len(fn.force_due) < MaxCalls
    /\ LET router == [NoRow EXCEPT !.last_success_at = fn.last_success_at,
                                   !.force_backup_every_days = fn.force_backup_every_days]
       IN  fn' = [fn EXCEPT !.force_due = Append(@, should_force_backup(router, fn.now))]
    /\ UNCHANGED EngineVars

NextDue == ForceCall

SpecDue == InitDue /\ [][NextDue]_vars

(***************************************************************************)
(* create_alert called from both except clauses (app/services/alerts.py),  *)
(* cut at its two transactions: the dedupe SELECT and the INSERT.          *)
(***************************************************************************)
AlertIdle == [pc |-> "idle", router_id |-> 0, kind |-> "", message |-> <<>>, dedupe_seconds |-> 0, created_at |-> 0, cutoff |-> 0, result |-> 0]

InitAlerts ==
    /\ InitEngine
    /\ fn = [op |-> "alert", calls |-> [th \in Threads |-> AlertIdle], n |-> 0, hits |-> <<>>]

\* Lines 54-71: the except clause of run_scheduled_checks (dedupe 900) or of
\* trigger_backup (dedupe 60) calls create_alert; created_at and the cutoff
\* are read from the clock before the first transaction opens.
AlertBegin(th) ==
    /\ fn.op = "alert"
    /\ fn.calls[th].pc = "idle"
    /\ fn.n < MaxCalls
    /\ \E router_id \in RouterIds, message \in {<<"api unreachable">>, <<"ftp failed">>} :
          fn' = [fn EXCEPT !.n = @ + 1,
                           !.calls[th] = [pc |-> "select", router_id |-> router_id, kind |-> "backup_failed",
                                          message |-> message,
                                          dedupe_seconds |-> IF th = "tick" THEN DedupeFailed ELSE DedupeManualFailed,
                                          created_at |-> now,
                                          cutoff |-> now - Seconds(IF th = "tick" THEN DedupeFailed ELSE DedupeManualFailed),
                                          result |-> 0]]
    /\ UNCHANGED EngineVars

\* Lines 73-85: the id of the newest row with the call's key at or after the cutoff, or 0.
alert_exists(tbl, c) ==
    LET ids == {i \in DOMAIN tbl : /\ tbl[i].router_id = c.router_id
                                   /\ tbl[i].kind = c.kind
                                   /\ tbl[i].message = c.message
                                   /\ tbl[i].created_at >= c.cutoff}
    IN  IF ids = {} THEN 0 ELSE CHOOSE i \in ids : \A j \in ids : j <= i

\* Lines 67-87: the dedupe SELECT in its own transaction; a hit returns the id.
AlertSelect(th) ==
    /\ fn.op = "alert"
    /\ fn.calls[th].pc = "select"
    /\ LET c == fn.calls[th]
           exists == IF c.dedupe_seconds > 0 THEN alert_exists(alerts, c) ELSE 0
       IN  fn' = IF exists # 0
                 THEN [fn EXCEPT !.calls[th] = [c EXCEPT !.pc = "idle", !.result = exists],
                                 !.hits = Append(@, [id |-> exists, size |-> Len(alerts)])]
                 ELSE [fn EXCEPT !.calls[th].pc = "insert"]
    /\ UNCHANGED EngineVars

\* Lines 89-97: the INSERT in a second transaction; the new id is returned.
AlertInsert(th) ==
    /\ fn.op = "alert"
    /\ fn.calls[th].pc = "insert"
    /\ LET c == fn.calls[th]
       IN  /\ alerts' = Append(alerts, [created_at |-> c.created_at, router_id |-> c.router_id,
                                        kind |-> c.kind, message |-> c.message])
           /\ fn' = [fn EXCEPT !.calls[th] = [c EXCEPT !.pc = "idle", !.result = Len(alerts) + 1]]
    /\ UNCHANGED <<now, routers, backups, router_logs, last_scheduler_run, files, dev, tick, cyc, started, baseline_days>>

NextAlerts ==
    \/ \E th \in Threads : AlertBegin(th) \/ AlertSelect(th) \/ AlertInsert(th)
    \/ AdvanceTime

SpecAlerts == InitAlerts /\ [][NextAlerts]_vars

(***************************************************************************)
(* MikroTikClient.fetch_logs called on its own, on chosen device logs.     *)
(***************************************************************************)
LogEntries ==
    {[time |-> time, topics |-> "system,info", message |-> message] :
        time \in {Junk} \cup {Iso(t) : t \in 0..MaxTime},
        message \in {"config changed by api", "user admin logged in"}}

DeviceLogs == {<<>>} \cup {<<e>> : e \in LogEntries} \cup {<<e1, e2>> : e1 \in LogEntries, e2 \in LogEntries}

InitFetch ==
    /\ InitEngine
    /\ fn \in [op : {"fetch"}, log : DeviceLogs, since : Timestamps, results : {<<>>}]

\* fetch_logs(since), called once more on the same device log.
FetchCall ==
    /\ fn.op = "fetch"
    /\ Len(fn.results) < MaxCalls
    /\ fn' = [fn EXCEPT !.results = Append(@, fetch_logs([NewDevice EXCEPT !.log = fn.log], fn.since))]
    /\ UNCHANGED EngineVars

NextFetch == FetchCall

SpecFetch == InitFetch /\ [][NextFetch]_vars

(***************************************************************************)
(* Lines 152-178 of run_router_check called on their own: the backup       *)
(* window, the slice kept, the new backup cursor, and the backup-window    *)
(* fetch of the next cycle.                                                *)
(***************************************************************************)
\* An entry of /log/print that fetch_logs keeps, stamped with the given time.
KeptEntry(time) == [time |-> time, topics |-> "system,info", message |-> "config changed by api"]

LogTimes == {Junk} \cup {Iso(t) : t \in 0..MaxTime}

RECURSIVE LogsUpTo(_)
\* The device logs of at most n entries.
LogsUpTo(n) ==
    IF n = 0 THEN {<<>>}
    ELSE LET shorter == LogsUpTo(n - 1)
         IN  shorter \cup {Append(l, KeptEntry(time)) : l \in {s \in shorter : Len(s) = n - 1}, time \in LogTimes}

InitSlice ==
    /\ InitEngine
    /\ fn \in [op : {"slice"}, log : LogsUpTo(noisy_threshold + 1), detection_logs : LogLists,
               backup_log_cursor : {None, Iso(0)}, log_cursor : {Iso(t) : t \in 0..MaxTime},
               results : {<<>>}, refetched : {<<>>}]

\* Lines 152-178 on the device log: the slice kept and the new cursor.
SliceCall ==
    /\ fn.op = "slice"
    /\ Len(fn.results) < MaxCalls
    /\ LET fetched == fetch_logs([NewDevice EXCEPT !.log = fn.log], fn.backup_log_cursor)
           backup_logs == KeptLogs(fetched, fn.detection_logs)
       IN  fn' = [fn EXCEPT !.results = Append(@, [fetched |-> fetched, backup_logs |-> backup_logs,
                                                   backup_log_cursor |-> NextBackupCursor(backup_logs, fn.log_cursor)])]
    /\ UNCHANGED EngineVars

\* Line 154 of the next cycle: the backup window from the stored cursor.
RefetchCall ==
    /\ fn.op = "slice"
    /\ Len(fn.refetched) < Len(fn.results)
    /\ fn' = [fn EXCEPT !.refetched = Append(@, fetch_logs([NewDevice EXCEPT !.log = fn.log],
                                                          fn.results[Len(fn.refetched) + 1].backup_log_cursor))]
    /\ UNCHANGED EngineVars

NextSlice == SliceCall \/ RefetchCall

SpecSlice == InitSlice /\ [][NextSlice]_vars

(***************************************************************************)
(* Properties.                                                             *)
(***************************************************************************)
\* Thread th commits the transaction of lines 222-292 in this step.
Commits(th) == cyc[th].pc = "commit" /\ cyc'[th].pc = "alerts"

\* Thread th runs the retention sweep of lines 215-216 in this step.
Sweeps(th) == cyc[th].pc = "sweep" /\ cyc'[th].pc = "commit"

\* One cursor value is not later than another; an absent cursor is the earliest.
CursorLe(a, b) == ~Parses(a) \/ (Parses(b) /\ a.t <= b.t)

\* C1: whenever a cycle completes (commits) for a device, the stored
\* last_log_check_at and last_backup_log_at of that device are not earlier
\* than the values stored before.
CursorsNeverDecrease ==
    [][\A th \in Threads : Commits(th) =>
          LET id == cyc[th].router.id
          IN  /\ CursorLe(routers[id].last_log_check_at, routers'[id].last_log_check_at)
              /\ CursorLe(routers[id].last_backup_log_at, routers'[id].last_backup_log_at)]_vars

\* The file is the target of the backup_link or rsc_link of an important backup row.
ImportantFile(f) ==
    \E i \in DOMAIN backups :
        /\ backups[i].important
        /\ \E link \in {backups[i].backup_link, backups[i].rsc_link} :
              link.slug = f.slug /\ link.sub = f.sub /\ link.stamp = f.stamp

\* C2: a retention sweep never deletes a file that an important backup row
\* references at the time of the sweep.
SweepKeepsImportantFiles ==
    [][\A th \in Threads : Sweeps(th) =>
          \A f \in files \ files' : ~ImportantFile(f)]_vars

\* The tick ends in this step: by the cleanup after the loop, or by an exception.
TickEnds == tick.pc # "idle" /\ tick'.pc = "idle"

\* C3: when a tick ends, every device of its snapshot that was due has been
\* processed, with a committed cycle or with the failure recorded in its row.
TickProcessesEveryDueDevice ==
    [][TickEnds =>
          \A i \in DOMAIN tick.routers :
              IsDue(tick.routers[i], tick.now_utc, tick.now_ph) =>
                  /\ i <= Len(tick.outcome)
                  /\ tick.outcome[i] \in {"ok", "failed"}]_vars

\* C4: for every device, no local date occurs twice among the ticks that
\* found its baseline due.
BaselineDueOncePerDay ==
    \A id \in RouterIds :
        \A i, j \in DOMAIN baseline_days[id] :
            i # j => baseline_days[id][i] # baseline_days[id][j]

\* C5: the scheduler's cycle and a manual request's cycle are never in
\* progress for the same device at the same time.
OneRunPerDevice ==
    ~(/\ cyc["tick"].pc # "idle"
      /\ cyc["man"].pc # "idle"
      /\ cyc["tick"].router.id = cyc["man"].router.id)

\* The cycle of the device at tick.idx fails in this step: the except clause
\* of run_scheduled_checks runs, and ends or raises.
TickCycleFails ==
    /\ tick.pc # "idle"
    /\ tick.idx <= Len(tick.routers)
    /\ tick' = AfterExcept(tick) \/ tick'.pc = "idle"

\* C6: the step in which a cycle of a tick fails changes nothing in the
\* routers table except last_error and last_check_at of the failing device
\* and adds no row to backups or router_logs; the rows of the store change
\* only in that step or in a commit, and a cycle that has committed no
\* longer fails, so the failed cycle as a whole has changed nothing else.
FailedCycleFrame ==
    [][/\ TickCycleFails =>
            LET failing == tick.routers[tick.idx].id
            IN  /\ \A id \in DOMAIN routers :
                      routers'[id] = IF id = failing
                                     THEN [routers[id] EXCEPT !.last_error = routers'[id].last_error,
                                                              !.last_check_at = routers'[id].last_check_at]
                                     ELSE routers[id]
                /\ backups' = backups
                /\ router_logs' = router_logs
       /\ (routers' # routers) => (TickCycleFails \/ \E th \in Threads : Commits(th))
       /\ (Len(backups') # Len(backups) \/ router_logs' # router_logs) => \E th \in Threads : Commits(th)
       /\ cyc["tick"].pc = "alerts" => ~TickCycleFails]_vars

\* C6 witness: a device that had a committed hash and a backup is left with
\* the error of a failed cycle, and the hash and the backup time still there.
FailedAfterSuccess ==
    \E id \in DOMAIN routers :
        /\ HasText(routers[id].last_error)
        /\ routers[id].last_hash # NoHash
        /\ Parses(routers[id].last_success_at)
        /\ tick.pc = "loop"
        /\ Len(tick.outcome) > 0
        /\ tick.outcome[Len(tick.outcome)] = "failed"

\* C7: with an absent or empty old hash every call of detect_change, the
\* first and the repeated ones, with either log list, returns
\* (TRUE, "Initial snapshot").
InitialSnapshotAlways ==
    (fn.op = "detect" /\ FalsyHash(fn.old_hash)) =>
        /\ \A i \in DOMAIN fn.results : fn.results[i] = <<TRUE, "Initial snapshot">>
        /\ \A i \in DOMAIN fn.other_results : fn.other_results[i] = <<TRUE, "Initial snapshot">>

\* C7 witness: detect_change was called MaxCalls times with the empty old hash.
InitialSnapshotRepeated ==
    /\ fn.op = "detect"
    /\ fn.old_hash = ""
    /\ fn.logs # <<>>
    /\ Len(fn.results) = MaxCalls
    /\ fn.results[1] = <<TRUE, "Initial snapshot">>

\* C8: with a non-empty old hash every call of detect_change returns
\* (FALSE, "No changes detected") when the hashes are equal and
\* (TRUE, "Hash changed") when they differ.
HashComparisonDecides ==
    (fn.op = "detect" /\ ~FalsyHash(fn.old_hash)) =>
        \A i \in DOMAIN fn.results :
            fn.results[i] = IF fn.new_hash = fn.old_hash
                            THEN <<FALSE, "No changes detected">>
                            ELSE <<TRUE, "Hash changed">>

\* C8 witness: a call with equal non-empty hashes answered "No changes detected".
EqualHashesCalled ==
    /\ fn.op = "detect"
    /\ fn.old_hash \in Hashes
    /\ fn.new_hash = fn.old_hash
    /\ Len(fn.results) > 0
    /\ fn.results[1] = <<FALSE, "No changes detected">>

\* C9: for the same hashes, detect_change returns the same result for any
\* two log lists, and the decisions of lines 144-146 made with the two log
\* lists agree on changed and needs_backup.
LogsNeverDecide ==
    fn.op = "detect" =>
        /\ \A i \in DOMAIN fn.results : \A j \in DOMAIN fn.other_results :
              fn.results[i] = fn.other_results[j]
        /\ \A i \in DOMAIN fn.decisions :
              /\ fn.decisions[i][1].changed = fn.decisions[i][2].changed
              /\ fn.decisions[i][1].needs_backup = fn.decisions[i][2].needs_backup

\* C9 witness: equal hashes, one log list empty and the other holding a
\* change-indicating message, both called, and no backup decided.
ChangeLogWithoutBackup ==
    /\ fn.op = "detect"
    /\ fn.old_hash \in Hashes
    /\ fn.new_hash = fn.old_hash
    /\ fn.logs = <<>>
    /\ fn.other_logs = <<ChangeEntry(0)>>
    /\ ~fn.force
    /\ ~fn.baseline_due
    /\ Len(fn.results) > 0
    /\ Len(fn.other_results) > 0
    /\ Len(fn.decisions) > 0
    /\ ~fn.decisions[1][2].needs_backup

\* C10: with last_success_at absent (NULL or empty), should_force_backup
\* returns TRUE for every force cadence and every now.
ForceDueWithoutSuccess ==
    (fn.op = "due" /\ ~Truthy(fn.last_success_at)) =>
        \A i \in DOMAIN fn.force_due : fn.force_due[i]

\* C10 witness: should_force_backup answered TRUE for a router without last_success_at.
ForcedWithoutSuccess ==
    /\ fn.op = "due"
    /\ fn.last_success_at = None
    /\ fn.force_backup_every_days = 1
    /\ Len(fn.force_due) > 0
    /\ fn.force_due[1]

Min(a, b) == IF a <= b THEN a ELSE b

\* The values of a global force cadence, in days.
GlobalForceDays == {1, 2}

Returns(th) == cyc[th].pc = "alerts" /\ cyc'[th].pc = "idle"

\* C12: the commit of a cycle, scheduled or manual, with or without a
\* backup, leaves last_error of the device NULL, and it is still NULL when
\* the cycle returns.
SuccessClearsError ==
    [][\A th \in Threads :
          /\ Commits(th) => routers'[cyc[th].router.id].last_error = NoError
          /\ Returns(th) => routers[cyc[th].router.id].last_error = NoError]_vars

\* C12 witness: a cycle that started with an error stored for the device
\* has committed, and the error is gone.
ErrorCleared ==
    \E th \in Threads :
        /\ cyc[th].pc = "alerts"
        /\ cyc[th].prior_error # ""
        /\ routers[cyc[th].router.id].last_error = NoError

\* The inputs of the decision of the cycle of thread th, from its locals.
CycChanged(th) == detect_change(cyc[th].detection_logs, cyc[th].new_hash, cyc[th].router.last_hash)[1]
CycForced(th) == cyc[th].force \/ (cyc[th].baseline_due /\ should_force_backup(cyc[th].router, cyc[th].now))

\* C13: the commit of a cycle appends one row to backups exactly when changed
\* or forced holds, forced being the manual force flag or (baseline due and
\* force due); the row's was_changed and was_forced are those two values; no
\* other step adds a row, and no step adds more than one.
RecordIffChangedOrForced ==
    [][/\ \A th \in Threads :
             Commits(th) =>
                 IF CycChanged(th) \/ CycForced(th)
                 THEN /\ Len(backups') = Len(backups) + 1
                      /\ SubSeq(backups', 1, Len(backups)) = backups
                      /\ backups'[Len(backups')].router_id = cyc[th].router.id
                      /\ backups'[Len(backups')].was_changed = CycChanged(th)
                      /\ backups'[Len(backups')].was_forced = CycForced(th)
                 ELSE backups' = backups
       /\ Len(backups') > Len(backups) => \E th \in Threads : Commits(th)
       /\ Len(backups') <= Len(backups) + 1]_vars

\* C13 witness: a scheduled cycle has stored a backup that is forced by the
\* baseline and not changed, after a first backup of the same device.
ForcedBaselineRecord ==
    \E i \in DOMAIN backups :
        /\ i > 1
        /\ backups[i].trigger = "auto"
        /\ backups[i].was_forced
        /\ ~backups[i].was_changed

\* The file is the target of the backup_link or rsc_link of a backup row.
ReferencedFile(f) ==
    \E i \in DOMAIN backups :
        \E link \in {backups[i].backup_link, backups[i].rsc_link} :
            link.slug = f.slug /\ link.sub = f.sub /\ link.stamp = f.stamp

\* The file is unlinked in this step (a rewrite under the same name is not).
Unlinked(f) == ~\E g \in files' : g.slug = f.slug /\ g.sub = f.sub /\ g.stamp = f.stamp

\* No step of a tick or of a cycle deletes a row of backups.
BackupRowsStay ==
    /\ Len(backups') >= Len(backups)
    /\ \A i \in DOMAIN backups : [backups'[i] EXCEPT !.important = backups[i].important] = backups[i]

NoDuplicateAlertInWindow ==
    fn.op = "alert" =>
        \A i, j \in DOMAIN alerts :
            (/\ i < j
             /\ alerts[i].router_id = alerts[j].router_id
             /\ alerts[i].kind = alerts[j].kind
             /\ alerts[i].message = alerts[j].message)
            => alerts[j].created_at - alerts[i].created_at >= Seconds(DedupeManualFailed)

\* C16: whatever happens to the alerts of a cycle that has committed, the
\* cycle returns to its caller without raising, the tick goes on with the
\* next device, and the committed rows of routers, backups and router_logs
\* stay; and whatever happens to the alert of a failed cycle whose failure
\* was recorded, the tick goes on with the next device.
AlertFailureIsSwallowed ==
    [][/\ \A th \in Threads :
             (cyc[th].pc = "alerts" /\ cyc'[th] # cyc[th]) =>
                 /\ cyc'[th].pc = "idle"
                 /\ routers' = routers
                 /\ backups' = backups
                 /\ router_logs' = router_logs
                 /\ th = "tick" => tick' = [tick EXCEPT !.pc = "loop", !.idx = @ + 1, !.outcome = Append(@, "ok")]
       /\ (tick.pc # "idle" /\ routers' # routers /\ ~Commits("tick") /\ ~Commits("man")) =>
             tick' = AfterExcept(tick)]_vars

\* C16 witness: while alerts fail, a scheduled cycle has stored a backup and
\* returned, no alert was stored for it, and the tick went on.
BackupWithoutAlert ==
    /\ AlertsFail
    /\ tick.pc = "loop"
    /\ Len(tick.outcome) > 0
    /\ tick.outcome[Len(tick.outcome)] = "ok"
    /\ Len(backups) > 0
    /\ alerts = <<>>

\* C17: when a scheduled cycle commits for a device that has no stored hash
\* (no cycle of it has succeeded yet) and no daily baseline time, it appends
\* exactly one row to backups, with trigger "auto", was_forced false,
\* was_changed true and the summary "Initial snapshot".
FirstScheduledBackup ==
    [][(/\ Commits("tick")
        /\ FalsyHash(cyc["tick"].router.last_hash)
        /\ ~Truthy(cyc["tick"].router.daily_baseline_time))
       => /\ Len(backups') = Len(backups) + 1
          /\ SubSeq(backups', 1, Len(backups)) = backups
          /\ LET row == backups'[Len(backups')]
             IN  /\ row.router_id = cyc["tick"].router.id
                 /\ row.trigger = "auto"
                 /\ ~row.was_forced
                 /\ row.was_changed
                 /\ row.change_summary = "Initial snapshot"]_vars

\* C17 witness: the device without a baseline time has its first row of
\* backups, made by a scheduled cycle, and it is not forced.
FirstScheduledSnapshot ==
    \E i \in DOMAIN backups :
        /\ backups[i].router_id = 2
        /\ ~Truthy(routers[2].daily_baseline_time)
        /\ backups[i].trigger = "auto"
        /\ backups[i].change_summary = "Initial snapshot"
        /\ ~backups[i].was_forced
        /\ \A j \in 1..(i - 1) : backups[j].router_id # 2

\* The loop of run_scheduled_checks reaches its next device in this step.
LoopStep == tick.pc = "loop" /\ tick.idx <= Len(tick.routers) /\ tick' # tick

\* The device the loop of the tick is at.
LoopRouter == tick.routers[tick.idx]

\* C18: the loop calls the Executor for its next device exactly when the
\* interval or the baseline is due for it, with force false and the trigger
\* "auto"; a device that is not due is skipped and nothing of it changes: no
\* step of the tick changes the row of a device, adds a row of backups or of
\* router_logs for it, or touches a file, unless the tick is at that device
\* and the device is due.
ExecutorCalledIffDue ==
    [][LET due == is_interval_due(LoopRouter, tick.now_utc) \/ is_baseline_due(LoopRouter, tick.now_ph)
       IN  /\ (LoopStep /\ due) =>
                 \/ /\ cyc'["tick"].pc # "idle"
                    /\ cyc'["tick"].router = LoopRouter
                    /\ ~cyc'["tick"].force
                    /\ cyc'["tick"].trigger = "auto"
                    /\ tick'.pc = "check"
                 \/ TickCycleFails
           /\ (LoopStep /\ ~due) =>
                 /\ tick' = [tick EXCEPT !.idx = @ + 1, !.outcome = Append(@, "skipped")]
                 /\ UNCHANGED <<cyc, routers, backups, router_logs, files, alerts, started>>
           /\ \A id \in RouterIds :
                 (\/ routers'[id] # routers[id]
                  \/ \E i \in DOMAIN backups' : i > Len(backups) /\ backups'[i].router_id = id
                  \/ \E row \in router_logs' \ router_logs : row.router_id = id)
                 => /\ tick.pc \in {"loop", "check"}
                    /\ tick.idx <= Len(tick.routers)
                    /\ LoopRouter.id = id
                    /\ due]_vars

\* C18 witness: the tick has skipped a device that was checked before, and
\* the row of the device is as the tick read it.
SkippedDevice ==
    /\ tick.pc = "loop"
    /\ \E k \in DOMAIN tick.outcome :
          /\ tick.outcome[k] = "skipped"
          /\ Parses(tick.routers[k].last_check_at)
          /\ routers[tick.routers[k].id] = tick.routers[k]

\* C19: when the cycle of a manual request commits, whatever the row of the
\* device was, it appends exactly one row to backups, with trigger "manual"
\* and was_forced true; when the hash of the export equals the stored hash,
\* the row has was_changed false and the summary "No changes detected".
ManualBackupAlwaysRecorded ==
    [][Commits("man") =>
          /\ Len(backups') = Len(backups) + 1
          /\ SubSeq(backups', 1, Len(backups)) = backups
          /\ LET row == backups'[Len(backups')]
                 c == cyc["man"]
             IN  /\ row.router_id = c.router.id
                 /\ row.trigger = "manual"
                 /\ row.was_forced
                 /\ c.new_hash = c.router.last_hash =>
                        /\ ~row.was_changed
                        /\ row.change_summary = "No changes detected"]_vars

\* C19 witness: a manual backup of an unchanged device is stored.
ManualUnchangedRecord ==
    \E i \in DOMAIN backups :
        /\ backups[i].trigger = "manual"
        /\ backups[i].was_forced
        /\ ~backups[i].was_changed
        /\ backups[i].change_summary = "No changes detected"

\* C20: a cycle never writes artifacts into, or sweeps, a folder that holds
\* the artifacts of the backups of another device.
StorageFoldersDisjoint ==
    [][\A th \in Threads :
          (cyc[th].pc \in {"artifacts", "sweep"} /\ files' # files) =>
              \A i \in DOMAIN backups :
                  backups[i].router_id # cyc[th].router.id =>
                      backups[i].backup_link.slug # safe_name(cyc[th].router.name)]_vars

\* The device is due at every tick from time t to the end of the horizon.
DueFrom(row, t) == \A u \in t..MaxTime : IsDue(row, u, NowPh(u))

\* A cycle of the enabled device id has failed and was recorded, no cycle is
\* running, k cycles were started so far, and the horizon has room for one more.
FailedAndWaiting(id, k) ==
    /\ routers[id].enabled
    /\ HasText(routers[id].last_error)
    /\ cyc["tick"].pc = "idle"
    /\ started = k
    /\ k < MaxCycles
    /\ \E t \in now..MaxTime : DueFrom(routers[id], t)

\* C21: a recorded failure leaves the device due again once its check
\* interval has passed, and under a scheduler that keeps ticking while the
\* clock goes on, a later tick calls the Executor for the device again.
FailedDeviceRetried ==
    /\ [](\A id \in RouterIds :
             (HasText(routers[id].last_error) /\ Parses(routers[id].last_check_at)) =>
                 is_interval_due(routers[id],
                     routers[id].last_check_at.t
                         + Hours(IntOr(routers[id].backup_check_interval_hours, DefaultIntervalHours))))
    /\ \A id \in RouterIds : \A k \in 0..MaxCycles :
          FailedAndWaiting(id, k) ~> (started > k)

\* C21 witness: the first cycle of the interval device failed at time 0, and
\* a tick at a later time has called the Executor for it again.
RetriedAfterFailure ==
    /\ routers[2].enabled
    /\ HasText(routers[2].last_error)
    /\ routers[2].last_check_at = Iso(0)
    /\ cyc["tick"].pc # "idle"
    /\ cyc["tick"].router.id = 2
    /\ cyc["tick"].now > 0

\* The cycle of a manual request fails in this step: run_router_check raises
\* in trigger_backup, before its decision or after it.
ManualCycleFails ==
    /\ cyc'["man"].pc = "idle"
    /\ cyc["man"].pc \notin {"idle", "alerts"} \/ (cyc["man"].pc = "idle" /\ started' > started)

\* C22: the step in which a cycle fails, started by the tick or by a manual
\* request, leaves the error in last_error of the device and a
\* backup_failed alert of the device in the alerts table, and the tick goes
\* on with the next device.
FailureRecordedAndAlerted ==
    [][/\ ManualCycleFails =>
             \E id \in RouterIds :
                 /\ HasText(routers'[id].last_error)
                 /\ \E k \in DOMAIN alerts' : alerts'[k].kind = "backup_failed" /\ alerts'[k].router_id = id
       /\ (TickCycleFails /\ tick.pc \in {"loop", "check"}) =>
             /\ HasText(routers'[LoopRouter.id].last_error)
             /\ \E k \in DOMAIN alerts' : alerts'[k].kind = "backup_failed" /\ alerts'[k].router_id = LoopRouter.id
             /\ tick' = AfterExcept(tick)]_vars

\* The transaction of lines 222-292 is rolled back in this step of thread th.
RollsBack(th) == cyc[th].pc = "commit" /\ cyc'[th].pc = "idle"

\* C23: the row of the device, the row of backups (if any) and the rows of
\* router_logs of one cycle appear in one step or not at all; the rows of
\* router_logs of a cycle with a backup carry the id of its row of backups,
\* those of a cycle without one carry none; a transaction that fails leaves
\* none of the three.  In every state a row of router_logs with a backup_id
\* has its row of backups, and a row of backups has the device row that was
\* written with it.
CycleCommitsAtomically ==
    /\ [](/\ \A row \in router_logs :
                row.backup_id # 0 =>
                    /\ row.backup_id \in DOMAIN backups
                    /\ backups[row.backup_id].router_id = row.router_id
          /\ \A i \in DOMAIN backups :
                /\ Parses(routers[backups[i].router_id].last_backup_at)
                /\ routers[backups[i].router_id].last_backup_at.t >= backups[i].created_at
                /\ ~FalsyHash(routers[backups[i].router_id].last_hash))
    /\ [][/\ \A th \in Threads :
                Commits(th) =>
                    LET c == cyc[th]
                        id == c.router.id
                        rows == router_logs' \ router_logs
                    IN  /\ routers'[id].last_check_at = Iso(now)
                        /\ routers'[id].last_hash = c.new_hash
                        /\ routers'[id].last_log_check_at = c.log_cursor
                        /\ router_logs \subseteq router_logs'
                        /\ \A row \in rows : row.router_id = id
                        /\ IF c.needs_backup
                           THEN /\ Len(backups') = Len(backups) + 1
                                /\ backups'[Len(backups')].router_id = id
                                /\ routers'[id].last_backup_at = Iso(backups'[Len(backups')].created_at)
                                /\ \A row \in rows : row.backup_id = Len(backups')
                                /\ \A i \in DOMAIN c.backup_logs :
                                      \E row \in router_logs' :
                                          /\ row.backup_id = Len(backups')
                                          /\ row.logged_at = c.backup_logs[i].logged_at
                                          /\ row.message = c.backup_logs[i].message
                           ELSE /\ backups' = backups
                                /\ \A row \in rows : row.backup_id = 0
          /\ \A th \in Threads :
                RollsBack(th) =>
                    LET id == cyc[th].router.id
                    IN  /\ backups' = backups
                        /\ router_logs' = router_logs
                        /\ routers'[id].last_hash = routers[id].last_hash
                        /\ routers'[id].last_log_check_at = routers[id].last_log_check_at
                        /\ routers'[id].last_backup_at = routers[id].last_backup_at
          /\ (backups' # backups \/ router_logs' # router_logs) => \E th \in Threads : Commits(th)]_vars

\* C23 witness: a backup is stored together with a row of router_logs that
\* carries its id and with the device row of the same commit.
BackupWithItsLogs ==
    \E row \in router_logs :
        /\ row.backup_id \in DOMAIN backups
        /\ backups[row.backup_id].router_id = row.router_id
        /\ routers[row.router_id].last_backup_at = Iso(backups[row.backup_id].created_at)

\* C24: last_backup_at and last_success_at of a device change only in the
\* commit of a cycle that made a backup; the commit of a cycle without a
\* backup leaves both as they were in the store just before it.
BackupTimesChangeOnlyWithBackup ==
    [][/\ \A th \in Threads :
             (Commits(th) /\ ~cyc[th].needs_backup) =>
                 /\ routers'[cyc[th].router.id].last_backup_at = routers[cyc[th].router.id].last_backup_at
                 /\ routers'[cyc[th].router.id].last_success_at = routers[cyc[th].router.id].last_success_at
       /\ \A id \in RouterIds :
             (\/ routers'[id].last_backup_at # routers[id].last_backup_at
              \/ routers'[id].last_success_at # routers[id].last_success_at)
             => \E th \in Threads : Commits(th) /\ cyc[th].router.id = id]_vars

\* C26: every entry fetch_logs(since) returns has a timestamp strictly later
\* than a cursor that parses; an entry at the cursor or before it is not
\* returned.
FetchedStrictlyAfterCursor ==
    (fn.op = "fetch" /\ Parses(fn.since)) =>
        \A k \in DOMAIN fn.results : \A i \in DOMAIN fn.results[k] :
            Parses(fn.results[k][i].logged_at) => fn.results[k][i].logged_at.t > fn.since.t

\* C27: no cycle decides on the digest of the empty string, and the digest
\* of the empty string is never stored as last_hash of a device.
EmptyExportNeverHashed ==
    /\ \A th \in Threads : cyc[th].pc # "idle" => cyc[th].new_hash # sha256_text("")
    /\ \A id \in RouterIds : routers[id].last_hash # sha256_text("")

\* C25: the step that starts a tick writes last_scheduler_run, before the
\* loop has looked at any device; no other step writes it, so it is written
\* once per tick, whether the devices are skipped, succeed or fail.
HeartbeatOncePerTick ==
    /\ [](tick.pc # "idle" => last_scheduler_run = Iso(tick.now_utc))
    /\ [][/\ (tick.pc = "idle" /\ tick'.pc # "idle") =>
                /\ last_scheduler_run' = Iso(now)
                /\ tick'.idx = 1
                /\ tick'.outcome = <<>>
                /\ UNCHANGED <<routers, backups, router_logs, cyc, started>>
          /\ tick.pc # "idle" => last_scheduler_run' = last_scheduler_run]_vars

\* C25 witness: a tick that started after time 0 has seen its device fail or
\* has skipped it, and the heartbeat is the one written at its start.
HeartbeatOfFailedTick ==
    /\ tick.pc = "loop"
    /\ tick.now_utc > 0
    /\ tick.idx > Len(tick.routers)
    /\ \E k \in DOMAIN tick.outcome : tick.outcome[k] = "failed"
    /\ last_scheduler_run = Iso(tick.now_utc)

\* C28: the slice kept for a backup has at most max_backup_logs entries; it
\* is the tail of the detection-window logs when the backup window returned
\* more than noisy_threshold entries, and the tail of the backup window
\* otherwise.
StoredSliceIsCapped ==
    fn.op = "slice" =>
        \A k \in DOMAIN fn.results :
            LET r == fn.results[k]
                source == IF Len(r.fetched) > noisy_threshold THEN fn.detection_logs ELSE r.fetched
                kept == r.backup_logs
            IN  /\ Len(kept) <= max_backup_logs
                /\ Len(kept) = Min(Len(source), max_backup_logs)
                /\ \A i \in DOMAIN kept : kept[i] = source[Len(source) - Len(kept) + i]

\* C28 witness: a backup window of more than noisy_threshold entries was
\* replaced by a detection window that itself had to be cut.
NoisyWindowReplaced ==
    /\ fn.op = "slice"
    /\ \E k \in DOMAIN fn.results :
          /\ Len(fn.results[k].fetched) > noisy_threshold
          /\ Len(fn.detection_logs) > max_backup_logs
          /\ Len(fn.results[k].backup_logs) = max_backup_logs
          /\ fn.results[k].backup_logs[max_backup_logs] = fn.detection_logs[Len(fn.detection_logs)]

\* The newest parseable logged_at of a list of entries, or -1.
NewestTime(logs) ==
    LET times == {logs[i].logged_at.t : i \in {j \in DOMAIN logs : Parses(logs[j].logged_at)}}
    IN  IF times = {} THEN -1 ELSE CHOOSE t \in times : \A u \in times : u <= t

\* The new backup cursor is one second past the newest parseable timestamp
\* of the slice kept, or the detection cursor when the slice has none.
CursorPastNewest(r) ==
    r.backup_log_cursor = IF NewestTime(r.backup_logs) >= 0
                          THEN Iso(NewestTime(r.backup_logs) + Seconds(1))
                          ELSE fn.log_cursor

RecoveredAlerts(tbl, id) == {i \in DOMAIN tbl : tbl[i].router_id = id /\ tbl[i].kind = "router_recovered"}

\* A cycle of the tick ends in success in this step.
SuccessEnds == cyc["tick"].pc = "alerts" /\ cyc'["tick"].pc = "idle" /\ Len(tick'.outcome) > Len(tick.outcome)

\* The step stores one more router_recovered alert for the device of the cycle.
RecoveredEmitted ==
    LET id == cyc["tick"].router.id
    IN  Cardinality(RecoveredAlerts(alerts', id)) = Cardinality(RecoveredAlerts(alerts, id)) + 1

\* A router_recovered alert of the device was stored within the last hour.
RecoveredLately ==
    \E i \in RecoveredAlerts(alerts, cyc["tick"].router.id) : alerts[i].created_at >= now - Seconds(3600)

\* The cycle starts with the lastError of the device as its prior error.
PriorErrorIsLastError ==
    \A th \in Threads :
        cyc[th].pc # "idle" =>
            cyc[th].prior_error = IF HasText(cyc[th].router.last_error) THEN cyc[th].router.last_error ELSE ""

\* C30 as stated: a successful cycle stores a router_recovered alert if and
\* only if the device had a non-empty lastError before the cycle.
RecoveredIffPriorError ==
    [][SuccessEnds => (RecoveredEmitted <=> cyc["tick"].prior_error # "")]_vars

\* C30 amended: a successful cycle asks for a router_recovered alert if and
\* only if the device had a non-empty lastError before the cycle, and the
\* alert is stored unless one for the same device was stored within the
\* last hour; the success leaves lastError cleared, so the successes that
\* follow it store no further recovered alert.
RecoveredIffPriorErrorAndNotLately ==
    /\ []PriorErrorIsLastError
    /\ [][SuccessEnds =>
            /\ RecoveredEmitted <=> (cyc["tick"].prior_error # "" /\ ~RecoveredLately)
            /\ ~HasText(routers[cyc["tick"].router.id].last_error)
            /\ Cardinality(RecoveredAlerts(alerts', cyc["tick"].router.id))
                   <= Cardinality(RecoveredAlerts(alerts, cyc["tick"].router.id)) + 1]_vars

\* C30 witness: the device failed, recovered with an alert, and a further
\* successful cycle without prior error has ended with that single alert.
OneRecoveredAlert ==
    \E id \in RouterIds :
        /\ Cardinality(RecoveredAlerts(alerts, id)) = 1
        /\ \E i \in DOMAIN alerts : alerts[i].router_id = id /\ alerts[i].kind = "backup_failed"
        /\ ~HasText(routers[id].last_error)
        /\ tick.pc = "loop" /\ tick.outcome # <<>> /\ tick.outcome[Len(tick.outcome)] = "ok"
        /\ tick.routers[Len(tick.outcome)].id = id
        /\ ~HasText(tick.routers[Len(tick.outcome)].last_error)

\* A cycle of the scheduler is in progress.
TickCycleRunning == cyc["tick"].pc # "idle"

\* The scheduler starts a cycle in this step.
TickCycleStarts == tick.pc = "loop" /\ started' = started + 1 /\ tick'.pc # "idle"

\* C31: the cycle in progress for the scheduler is the one of the device the
\* loop stands at, every device before it has been skipped, has succeeded or
\* has had its failure handled, and a cycle starts only when none is in
\* progress and the devices before it are finished.
DevicesProcessedSequentially ==
    /\ [](TickCycleRunning =>
            /\ tick.pc = "check"
            /\ tick.idx \in DOMAIN tick.routers
            /\ cyc["tick"].router.id = tick.routers[tick.idx].id
            /\ Len(tick.outcome) = tick.idx - 1)
    /\ [][TickCycleStarts =>
            /\ ~TickCycleRunning
            /\ Len(tick.outcome) = tick.idx - 1
            /\ \A i \in 1..(tick.idx - 1) :
                   tick.outcome[i] = "failed" => HasText(routers[tick.routers[i].id].last_error)]_vars

\* C31 witness: the cycle of the second device is in progress after the
\* failure of the first one was recorded.
SecondDeviceAfterFailure ==
    /\ TickCycleRunning
    /\ tick.idx = 2
    /\ tick.outcome = <<"failed">>
    /\ HasText(routers[tick.routers[1].id].last_error)
    /\ cyc["tick"].router.id = tick.routers[2].id

\* The fields of the device row that only a backup or a baseline renews.
BackupFields(row) ==
    <<row.last_backup_at, row.last_success_at, row.last_backup_log_at, row.last_baseline_at, row.last_backup_links>>

\* C32: the commit of a cycle of the scheduler never puts back, in place of
\* what a manual backup stored since the tick loaded its rows, the older
\* last_backup_at, last_success_at, last_backup_log_at, last_baseline_at or
\* last_backup_links the tick read at its start.
NoLostUpdate ==
    [][Commits("tick") =>
          LET id == cyc["tick"].router.id
              read == BackupFields(cyc["tick"].router)
              stored == BackupFields(routers[id])
              written == BackupFields(routers'[id])
          IN  \A f \in DOMAIN read : stored[f] # read[f] => written[f] # read[f]]_vars

\* The BackupRecord of the same device stored just before record i, or 0.
PrecedingRecord(i) ==
    LET earlier == {j \in 1..(i - 1) : backups[j].router_id = backups[i].router_id}
    IN  IF earlier = {} THEN 0 ELSE CHOOSE j \in earlier : \A k \in earlier : k <= j

\* C33: a BackupRecord stored as changed and not forced never has the
\* rsc_hash of the BackupRecord of the same device stored just before it.
OneUnforcedBackupPerConfig ==
    \A i \in DOMAIN backups :
        (backups[i].was_changed /\ ~backups[i].was_forced /\ PrecedingRecord(i) # 0)
            => backups[i].rsc_hash # backups[PrecedingRecord(i)].rsc_hash

(***************************************************************************)
(* The detection window of run_router_check, cut at its two device calls:  *)
(* fetch_logs(last_log_check_at), then get_router_clock_iso.               *)
(***************************************************************************)
InitWindow ==
    /\ InitEngine
    /\ fn = [op |-> "window", pc |-> "idle", last_log_check_at |-> None,
             detection_logs |-> <<>>, seen |-> {}, cycles |-> 0]

\* Line 120: detection_logs = client.fetch_logs(router.get("last_log_check_at")).
WindowFetch ==
    /\ fn.op = "window"
    /\ fn.pc = "idle"
    /\ fn.cycles < MaxCalls + 1
    /\ LET detection_logs == fetch_logs(dev[1], fn.last_log_check_at)
       IN  fn' = [fn EXCEPT !.pc = "fetched", !.detection_logs = detection_logs,
                            !.seen = @ \cup {detection_logs[i] : i \in DOMAIN detection_logs},
                            !.cycles = @ + 1]
    /\ UNCHANGED EngineVars

\* Lines 121-126 and 227: the device clock is read, set back by one second
\* and stored as last_log_check_at when the cycle commits.
WindowClock ==
    /\ fn.op = "window"
    /\ fn.pc = "fetched"
    /\ fn' = [fn EXCEPT !.pc = "idle", !.last_log_check_at = Iso(get_router_clock_iso.t - Seconds(1))]
    /\ UNCHANGED EngineVars

NextWindow ==
    \/ WindowFetch
    \/ WindowClock
    \/ DeviceLog(1)
    \/ AdvanceTime

\* One device that logs while cycle after cycle fetches its detection window.
SpecWindow == InitWindow /\ [][NextWindow]_vars

\* C34: between two cycles, every change-indicating entry of the device log
\* was returned by the detection fetch of a cycle or is still returned by a
\* fetch from the stored cursor.
NoLogEntryLost ==
    (fn.op = "window" /\ fn.pc = "idle") =>
        LET next == fetch_logs(dev[1], fn.last_log_check_at)
            logged == fetch_logs(dev[1], None)
        IN  \A k \in DOMAIN logged :
                logged[k] \in fn.seen \/ \E i \in DOMAIN next : next[i] = logged[k]

\* C35: no two BackupRecords share a backup_link or an rsc_link.
DistinctRecordsDistinctFiles ==
    \A i, j \in DOMAIN backups :
        i # j => /\ backups[i].backup_link # backups[j].backup_link
                 /\ backups[i].rsc_link # backups[j].rsc_link

\* The values update_router stores for retention_days: the form field is an
\* int written to the row as it comes.
StoredRetentionDays == {-1, 0, 1}

InitRetention ==
    /\ InitStore
    /\ \E retention_days \in StoredRetentionDays :
          routers = (1 :> [NewRouter(1, "a b", BaselineConfig) EXCEPT !.enabled = FALSE])
                    @@ (2 :> NewRouter(2, "c", [IntervalConfig EXCEPT !.retention = retention_days]))
    /\ dev = [id \in RouterIds |-> NewDevice]
    /\ fn = FnIdle

\* The scheduler over one device, for every retention_days the form can store.
SpecRetention == InitRetention /\ [][NextFair]_vars

\* C36: the retention sweep of a cycle leaves in place the files that the
\* same cycle has written just before it, whatever retention_days is stored.
SweepKeepsOwnArtifacts ==
    [][\A th \in Threads :
          Sweeps(th) =>
              \A f \in files :
                  (/\ f.slug = safe_name(cyc[th].router.name)
                   /\ f.stamp = cyc[th].now
                   /\ f.mtime = now) => f \in files']_vars

\* The values update_router stores for force_backup_every_days.
StoredForceDays == {-1, 0, 1}

\* One device: the baseline device with any stored force cadence, or the
\* interval device without a baseline time.
InitCadence ==
    /\ InitStore
    /\ \/ \E force \in StoredForceDays :
             routers = (1 :> NewRouter(1, "a b", [BaselineConfig EXCEPT !.force = force]))
                       @@ (2 :> [NewRouter(2, "c", IntervalConfig) EXCEPT !.enabled = FALSE])
       \/ routers = (1 :> [NewRouter(1, "a b", BaselineConfig) EXCEPT !.enabled = FALSE])
                    @@ (2 :> NewRouter(2, "c", IntervalConfig))
    /\ dev = [id \in RouterIds |-> NewDevice]
    /\ fn = FnIdle

\* The scheduler over one device, for every force cadence the form can store.
SpecCadence == InitCadence /\ [][Next]_vars

\* The cycle of the scheduler that commits in this step ran with baseline_due
\* for a device whose export hash is the stored one and whose last success is
\* at least the given number of days old.
CadenceReached(days) ==
    LET c == cyc["tick"]
    IN  /\ Commits("tick")
        /\ c.trigger = "auto"
        /\ c.baseline_due
        /\ Truthy(c.router.daily_baseline_time)
        /\ c.new_hash = c.router.last_hash
        /\ Parses(c.router.last_success_at)
        /\ c.now - c.router.last_success_at.t >= Days(days)

\* The step appends a BackupRecord of the cycle, forced and not changed.
ForcedRecordStored ==
    /\ Len(backups') = Len(backups) + 1
    /\ backups'[Len(backups')].router_id = cyc["tick"].router.id
    /\ backups'[Len(backups')].trigger = "auto"
    /\ backups'[Len(backups')].was_forced
    /\ ~backups'[Len(backups')].was_changed

\* No BackupRecord of the scheduler is forced for a device without a daily
\* baseline time.
NeverForcedWithoutBaseline ==
    \A i \in DOMAIN backups :
        (backups[i].trigger = "auto" /\ backups[i].was_forced)
            => Truthy(routers[backups[i].router_id].daily_baseline_time)

====
